---- MODULE Spec2Model ----
(***************************************************************************)
(* The event significance engine of the drone operator console             *)
(* (src/src/components/extra.tsx): initSpecialCaseEngine and               *)
(* decideSpecialCase, with the engine state lastByCell / recent.           *)
(*                                                                         *)
(* Units.  A coordinate is a pair <<lng, lat>> of integers counting steps  *)
(* of 0.00005 degree, so the grid cell CELL_DEG = 0.00035 degree is 7      *)
(* steps.  All coordinates lie within a few hundred steps of <<0, 0>>,     *)
(* where one step of arc is 5.56 m in both directions, so the great-circle *)
(* distance of turf.distance is 5.56 m times the Euclidean step distance.  *)
(* A score is an integer count of hundredths (0.88 is 88).  A timestamp    *)
(* is an integer count of milliseconds.                                    *)
(***************************************************************************)
EXTENDS Integers, Sequences, FiniteSets

VARIABLES lastByCell, recent, last, hist, heap, engines, frames

vars == <<lastByCell, recent, last, hist, heap, engines, frames>>

\* ------------------------------------------------------------------ bounds
\* Number of decide calls in one run of the mixed stream (Spec, SpecCtx).
MaxCalls == 2
\* Number of decide calls in one run of a single-purpose stream.
MaxStreamCalls == 3
\* Number of initializer calls in one run of the several-engines model.
MaxEngines == 2
\* Number of decide calls in one run of the long person stream.
MaxPersistCalls == 4
\* Number of decide calls in one run of the model of unserialized callers.
MaxRaceCalls == 2

\* ------------------------------------------------------- program constants
CELL_DEG == 7
NEAR_ASSET_METERS == 60
PERSIST_MAX_GAP_MS == 12000
RECENT_WINDOW_MS == 60000
FIRE_CONF == 88
FIRE_AUTO_CONF == 95
FIRE_PERSIST_TICKS == 2
PERSON_CONF == 90
PERSON_PERSIST_TICKS_AOI == 3
CLUSTER_COUNT == 3
CLUSTER_METERS == 100
CLUSTER_WINDOW_MS == 30000
CHEMICAL_CONF == 85
NEAR_ASSET_FIRE_CONF == 85
NEAR_ASSET_PERSON_CONF == 92
\* 25 times the metres in one coordinate step (0.00005 degree of arc).
STEP_METERS_X25 == 139

\* An optional field (ctx.aois, ctx.assets, aois.features) is the empty
\* sequence when it is undefined and the one-element sequence of its value
\* when it is present.
Undefined == <<>>

Some(v) == <<v>>

Val(opt) == opt[1]

\* Decision, in the order of urgency.
Decisions == {"ignore", "record", "surface", "auto-dispatch"}

Rank(d) ==
  CASE d = "ignore" -> 0
    [] d = "record" -> 1
    [] d = "surface" -> 2
    [] d = "auto-dispatch" -> 3

\* ------------------------------------------------------------ pure helpers
\* The label used as it is spelled.
toLowerCase_AsSpelled(label) == label

\* String.prototype.toLowerCase on the labels the model feeds.
toLowerCase(label) ==
  CASE label = "FIRE" -> "fire"
    [] label = "Person" -> "person"
    [] OTHER -> label

\* Math.round(v / CELL_DEG): the nearest integer, a half rounding up.  v is a
\* whole number of steps, so v / 7 is never half-way and the floor of
\* (2v + 7) / 14 is the rounded quotient, for negative v too.
RoundCell(v) == (2 * v + CELL_DEG) \div (2 * CELL_DEG)

\* people counted on the cells of person.
cellKey_PeopleAsPerson(label, coord) ==
  <<IF label = "people" THEN "person" ELSE label, RoundCell(coord[1]), RoundCell(coord[2])>>

\* cellKey(label, [lng, lat]) = `${label}:${round(lng/CELL_DEG)}:${round(lat/CELL_DEG)}`
cellKey(label, coord) == <<label, RoundCell(coord[1]), RoundCell(coord[2])>>

\* Squared step distance of two coordinates.
DistSq(a, b) == (a[1] - b[1]) * (a[1] - b[1]) + (a[2] - b[2]) * (a[2] - b[2])

\* turf.distance(a, b, {units: 'meters'}) <= meters
DistanceWithin(a, b, meters) ==
  DistSq(a, b) * STEP_METERS_X25 * STEP_METERS_X25 <= (25 * meters) * (25 * meters)

\* inRing of turf.booleanPointInPolygon: ray casting over the ring's edges,
\* a point on an edge counting as inside unless ignoreBoundary.
InRing(pt, ring0, ignoreBoundary) ==
  LET ring == IF ring0[1] = ring0[Len(ring0)]
              THEN SubSeq(ring0, 1, Len(ring0) - 1) ELSE ring0
      n == Len(ring)
      J(i) == IF i = 1 THEN n ELSE i - 1
      xi(i) == ring[i][1]
      yi(i) == ring[i][2]
      xj(i) == ring[J(i)][1]
      yj(i) == ring[J(i)][2]
      OnBoundary(i) ==
        /\ pt[2] * (xi(i) - xj(i)) + yi(i) * (xj(i) - pt[1])
             + yj(i) * (pt[1] - xi(i)) = 0
        /\ (xi(i) - pt[1]) * (xj(i) - pt[1]) <= 0
        /\ (yi(i) - pt[2]) * (yj(i) - pt[2]) <= 0
      \* pt[1] < (xj - xi) * (pt[2] - yi) / (yj - yi) + xi, without dividing
      Intersect(i) ==
        /\ (yi(i) > pt[2]) # (yj(i) > pt[2])
        /\ IF yj(i) > yi(i)
           THEN (pt[1] - xi(i)) * (yj(i) - yi(i)) < (xj(i) - xi(i)) * (pt[2] - yi(i))
           ELSE (pt[1] - xi(i)) * (yj(i) - yi(i)) > (xj(i) - xi(i)) * (pt[2] - yi(i))
  IN IF \E i \in 1..n : OnBoundary(i)
     THEN ~ignoreBoundary
     ELSE Cardinality({i \in 1..n : Intersect(i)}) % 2 = 1

\* turf.booleanPointInPolygon(point, poly): inside the outer ring and in no
\* hole.  A polygon is the sequence of its rings.
booleanPointInPolygon(pt, poly) ==
  /\ InRing(pt, poly[1], FALSE)
  /\ \A k \in 2..Len(poly) : ~InRing(pt, poly[k], TRUE)

\* ------------------------------------------------------------ engine state
initSpecialCaseEngine == [lastByCell |-> <<>>, recent |-> <<>>]

\* The push keeping the event's own spelling of the label.
PushRecent_RawLabel(rec, label, ev) ==
  LET cutoff == ev.ts - RECENT_WINDOW_MS
      Keep(r) == r.ts >= cutoff
  IN SelectSeq(Append(rec, [label |-> ev.label, coord |-> ev.coord, ts |-> ev.ts]), Keep)

\* The filter dropping an entry exactly RECENT_WINDOW_MS old.
PushRecent_StrictCutoff(rec, label, ev) ==
  LET cutoff == ev.ts - RECENT_WINDOW_MS
      Keep(r) == r.ts > cutoff
  IN SelectSeq(Append(rec, [label |-> label, coord |-> ev.coord, ts |-> ev.ts]), Keep)

\* The new entry put first (unshift in place of push).
PushRecent_Unshift(rec, label, ev) ==
  LET cutoff == ev.ts - RECENT_WINDOW_MS
      Keep(r) == r.ts >= cutoff
  IN SelectSeq(<<[label |-> label, coord |-> ev.coord, ts |-> ev.ts]>> \o rec, Keep)

\* The push left out when recent already holds an equal entry.
PushRecent_Dedup(rec, label, ev) ==
  LET cutoff == ev.ts - RECENT_WINDOW_MS
      Keep(r) == r.ts >= cutoff
      e == [label |-> label, coord |-> ev.coord, ts |-> ev.ts]
  IN SelectSeq(IF \E i \in 1..Len(rec) : rec[i] = e THEN rec ELSE Append(rec, e), Keep)

\* st.recent.push(...); st.recent = st.recent.filter(r => r.ts >= cutoff)
PushRecent(rec, label, ev) ==
  LET cutoff == ev.ts - RECENT_WINDOW_MS
      Keep(r) == r.ts >= cutoff
  IN SelectSeq(Append(rec, [label |-> label, coord |-> ev.coord, ts |-> ev.ts]), Keep)

\* The count never restarted after a silence.
CellUpdate_NoReset(cells, key, t) ==
  IF key \notin DOMAIN cells
  THEN [count |-> 1, lastTs |-> t]
  ELSE [count |-> cells[key].count + 1, lastTs |-> t]

\* A repeat of the timestamp already stored not counted again.
CellUpdate_SkipSameTs(cells, key, t) ==
  IF key \notin DOMAIN cells \/ t - cells[key].lastTs > PERSIST_MAX_GAP_MS
  THEN [count |-> 1, lastTs |-> t]
  ELSE IF t = cells[key].lastTs THEN cells[key]
  ELSE [count |-> cells[key].count + 1, lastTs |-> t]

\* The count restarted by a gap of exactly PERSIST_MAX_GAP_MS.
CellUpdate_GapInclusive(cells, key, t) ==
  IF key \notin DOMAIN cells \/ t - cells[key].lastTs >= PERSIST_MAX_GAP_MS
  THEN [count |-> 1, lastTs |-> t]
  ELSE [count |-> cells[key].count + 1, lastTs |-> t]

\* The count restarted by a timestamp earlier than the one stored.
CellUpdate_ResetOnNegativeGap(cells, key, t) ==
  IF \/ key \notin DOMAIN cells
     \/ t - cells[key].lastTs > PERSIST_MAX_GAP_MS
     \/ t < cells[key].lastTs
  THEN [count |-> 1, lastTs |-> t]
  ELSE [count |-> cells[key].count + 1, lastTs |-> t]

\* The timestamp of the run's first detection kept while the count grows.
CellUpdate_StaleTs(cells, key, t) ==
  IF key \notin DOMAIN cells \/ t - cells[key].lastTs > PERSIST_MAX_GAP_MS
  THEN [count |-> 1, lastTs |-> t]
  ELSE [count |-> cells[key].count + 1, lastTs |-> cells[key].lastTs]

\* The entry decide stores for the event's cell.
CellUpdate(cells, key, t) ==
  IF key \notin DOMAIN cells \/ t - cells[key].lastTs > PERSIST_MAX_GAP_MS
  THEN [count |-> 1, lastTs |-> t]
  ELSE [count |-> cells[key].count + 1, lastTs |-> t]

\* The store sweeping out the cells silent for longer than the gap.
StoreCell_EvictStale(cells, key, t) ==
  [k \in {j \in DOMAIN cells : t - cells[j].lastTs <= PERSIST_MAX_GAP_MS} \cup {key} |->
     IF k = key THEN CellUpdate(cells, key, t) ELSE cells[k]]

\* st.lastByCell[key] = ...
StoreCell(cells, key, t) ==
  [k \in (DOMAIN cells) \cup {key} |->
     IF k = key THEN CellUpdate(cells, key, t) ELSE cells[k]]

\* ----------------------------------------------------------------- signals
insideAOI(coord, ctx) ==
  IF ctx.aois = Undefined THEN FALSE
  ELSE LET features == IF Val(ctx.aois).features = Undefined THEN <<>>
                       ELSE Val(Val(ctx.aois).features)
       IN \E i \in 1..Len(features) : booleanPointInPolygon(coord, features[i])

\* every in place of some, and no guard on an empty list.
nearAsset_Every(coord, ctx) ==
  IF ctx.assets = Undefined THEN FALSE
  ELSE \A i \in 1..Len(Val(ctx.assets)) :
         DistanceWithin(coord, Val(ctx.assets)[i], NEAR_ASSET_METERS)

nearAsset(coord, ctx) ==
  IF ctx.assets = Undefined THEN FALSE
  ELSE IF Len(Val(ctx.assets)) = 0 THEN FALSE
  ELSE \E i \in 1..Len(Val(ctx.assets)) :
         DistanceWithin(coord, Val(ctx.assets)[i], NEAR_ASSET_METERS)

\* The cluster reached only beyond clusterCount.
clusterHit_OffByOne(rec, label, coord, t) ==
  IF label \notin {"person", "people"} THEN FALSE
  ELSE LET since == t - CLUSTER_WINDOW_MS
           count == Cardinality({i \in 1..Len(rec) :
                       /\ rec[i].label = label
                       /\ rec[i].ts >= since
                       /\ DistanceWithin(coord, rec[i].coord, CLUSTER_METERS)})
       IN count > CLUSTER_COUNT

\* The cluster window taken as long as the persistence gap.
clusterHit_GapWindow(rec, label, coord, t) ==
  IF label \notin {"person", "people"} THEN FALSE
  ELSE LET since == t - PERSIST_MAX_GAP_MS
           count == Cardinality({i \in 1..Len(rec) :
                       /\ rec[i].label = label
                       /\ rec[i].ts >= since
                       /\ DistanceWithin(coord, rec[i].coord, CLUSTER_METERS)})
       IN count >= CLUSTER_COUNT

\* Only person and people have a clusterCount in THR.
HasCluster(label) == label \in {"person", "people"}

clusterHit(rec, label, coord, t) ==
  IF ~HasCluster(label) THEN FALSE
  ELSE LET since == t - CLUSTER_WINDOW_MS
           count == Cardinality({i \in 1..Len(rec) :
                       /\ rec[i].label = label
                       /\ rec[i].ts >= since
                       /\ DistanceWithin(coord, rec[i].coord, CLUSTER_METERS)})
       IN count >= CLUSTER_COUNT

\* ------------------------------------------------------------------- rules
\* A fire event inspected at first detection: auto-dispatch without persistence.
FireRule_NoPersistence(score, persistCount, inAOI) ==
  IF score >= FIRE_AUTO_CONF \/ inAOI THEN "auto-dispatch"
  ELSE IF persistCount >= FIRE_PERSIST_TICKS THEN "surface" ELSE "record"

\* The fire rule, for label fire and score >= THR.fire.conf.
FireRule(score, persistCount, inAOI) ==
  IF persistCount >= FIRE_PERSIST_TICKS
  THEN IF score >= FIRE_AUTO_CONF \/ inAOI THEN "auto-dispatch" ELSE "surface"
  ELSE "record"

\* The person rule, for person/people with score >= THR.person.conf inside an AOI.
PersonRule(persistCount, cluster) ==
  IF persistCount >= PERSON_PERSIST_TICKS_AOI \/ cluster THEN "surface" ELSE "record"

\* The chemical rule answering to an AOI alone.
ChemicalRule_AoiOnly(inAOI, near) ==
  IF inAOI THEN "surface" ELSE "record"

\* The chemical rule, for label chemical and score >= THR.chemical.conf.
ChemicalRule(inAOI, near) ==
  IF inAOI \/ near THEN "surface" ELSE "record"

\* The near-asset rule asking of a person the confidence of the person rule.
NearAssetOk_PersonConf(label, score) ==
  \/ (label = "fire" /\ score >= NEAR_ASSET_FIRE_CONF)
  \/ (label \in {"person", "people"} /\ score >= PERSON_CONF)

\* ok of the near-asset rule.
NearAssetOk(label, score) ==
  \/ (label = "fire" /\ score >= NEAR_ASSET_FIRE_CONF)
  \/ (label \in {"person", "people"} /\ score >= NEAR_ASSET_PERSON_CONF)

DefaultDecision_Ignore == "ignore"

\* The final return of decideSpecialCase.
DefaultDecision == "record"

\* The person rule entered outside an AOI too.
Rules_PersonUngated(label, score, persistCount, inAOI, near, cluster) ==
  IF label = "fire" /\ score >= FIRE_CONF
  THEN FireRule(score, persistCount, inAOI)
  ELSE IF label \in {"person", "people"} /\ score >= PERSON_CONF
  THEN PersonRule(persistCount, cluster)
  ELSE IF label = "chemical" /\ score >= CHEMICAL_CONF
  THEN ChemicalRule(inAOI, near)
  ELSE IF near /\ label \in {"person", "people", "fire"} /\ NearAssetOk(label, score)
  THEN "surface"
  ELSE DefaultDecision

\* The near-asset rule placed before the label rules.
Rules_NearAssetFirst(label, score, persistCount, inAOI, near, cluster) ==
  IF near /\ label \in {"person", "people", "fire"} /\ NearAssetOk(label, score)
  THEN "surface"
  ELSE IF label = "fire" /\ score >= FIRE_CONF
  THEN FireRule(score, persistCount, inAOI)
  ELSE IF label \in {"person", "people"} /\ score >= PERSON_CONF /\ inAOI
  THEN PersonRule(persistCount, cluster)
  ELSE IF label = "chemical" /\ score >= CHEMICAL_CONF
  THEN ChemicalRule(inAOI, near)
  ELSE DefaultDecision

\* The person rule returning only when it surfaces, and falling through
\* to the later rules otherwise.
Rules_PersonFallsThrough(label, score, persistCount, inAOI, near, cluster) ==
  IF label = "fire" /\ score >= FIRE_CONF
  THEN FireRule(score, persistCount, inAOI)
  ELSE IF /\ label \in {"person", "people"} /\ score >= PERSON_CONF /\ inAOI
          /\ PersonRule(persistCount, cluster) = "surface"
  THEN "surface"
  ELSE IF label = "chemical" /\ score >= CHEMICAL_CONF
  THEN ChemicalRule(inAOI, near)
  ELSE IF near /\ label \in {"person", "people", "fire"} /\ NearAssetOk(label, score)
  THEN "surface"
  ELSE DefaultDecision

\* A score outside [0, 1] turned away before the rules.
Rules_RangeChecked(label, score, persistCount, inAOI, near, cluster) ==
  IF score < 0 \/ score > 100
  THEN DefaultDecision
  ELSE IF label = "fire" /\ score >= FIRE_CONF
  THEN FireRule(score, persistCount, inAOI)
  ELSE IF label \in {"person", "people"} /\ score >= PERSON_CONF /\ inAOI
  THEN PersonRule(persistCount, cluster)
  ELSE IF label = "chemical" /\ score >= CHEMICAL_CONF
  THEN ChemicalRule(inAOI, near)
  ELSE IF near /\ label \in {"person", "people", "fire"} /\ NearAssetOk(label, score)
  THEN "surface"
  ELSE DefaultDecision

\* The rules of decideSpecialCase, the first that returns deciding.
Rules(label, score, persistCount, inAOI, near, cluster) ==
  IF label = "fire" /\ score >= FIRE_CONF
  THEN FireRule(score, persistCount, inAOI)
  ELSE IF label \in {"person", "people"} /\ score >= PERSON_CONF /\ inAOI
  THEN PersonRule(persistCount, cluster)
  ELSE IF label = "chemical" /\ score >= CHEMICAL_CONF
  THEN ChemicalRule(inAOI, near)
  ELSE IF near /\ label \in {"person", "people", "fire"} /\ NearAssetOk(label, score)
  THEN "surface"
  ELSE DefaultDecision

\* The state written only for a score that reaches some threshold, as the
\* minimal engine does.
decideSpecialCase_ScoreGated(st, ev, ctx) ==
  LET label == toLowerCase(ev.label)
      t == ev.ts
      gated == ev.score < CHEMICAL_CONF
      rec == IF gated THEN st.recent ELSE PushRecent(st.recent, label, ev)
      key == cellKey(label, ev.coord)
      cells == IF gated THEN st.lastByCell ELSE StoreCell(st.lastByCell, key, t)
      persistCount == IF key \in DOMAIN cells THEN cells[key].count ELSE 0
      inAOI == insideAOI(ev.coord, ctx)
      near == nearAsset(ev.coord, ctx)
      cluster == clusterHit(rec, label, ev.coord, t)
  IN [lastByCell |-> cells,
      recent |-> rec,
      key |-> key,
      persistCount |-> persistCount,
      insideAOI |-> inAOI,
      nearAsset |-> near,
      clusterHit |-> cluster,
      decision |-> Rules(label, ev.score, persistCount, inAOI, near, cluster)]

\* decideSpecialCase(st, ev, ctx): the state it leaves and what it returns.
decideSpecialCase(st, ev, ctx) ==
  LET label == toLowerCase(ev.label)
      t == ev.ts
      rec == PushRecent(st.recent, label, ev)
      key == cellKey(label, ev.coord)
      cells == StoreCell(st.lastByCell, key, t)
      persistCount == cells[key].count
      inAOI == insideAOI(ev.coord, ctx)
      near == nearAsset(ev.coord, ctx)
      cluster == clusterHit(rec, label, ev.coord, t)
  IN [lastByCell |-> cells,
      recent |-> rec,
      key |-> key,
      persistCount |-> persistCount,
      insideAOI |-> inAOI,
      nearAsset |-> near,
      clusterHit |-> cluster,
      decision |-> Rules(label, ev.score, persistCount, inAOI, near, cluster)]

\* ------------------------------------------- minimal surfacing engine
\* THR of the minimal engine: confidence and persist per label.
MinTHR ==
  [fire |-> [conf |-> 88, persist |-> 2],
   people |-> [conf |-> 90, persist |-> 2],
   person |-> [conf |-> 90, persist |-> 2],
   chemical |-> [conf |-> 85, persist |-> 1]]

GAP_MS == 12000

initEngine == [lastByCell |-> <<>>]

\* The entry shouldSurface stores for the event's cell.
MinCellUpdate(cells, key, t) ==
  IF key \notin DOMAIN cells \/ t - cells[key].lastTs > GAP_MS
  THEN [count |-> 1, lastTs |-> t]
  ELSE [count |-> cells[key].count + 1, lastTs |-> t]

\* The cell written before the label and the score are looked at, as
\* decideSpecialCase does.
shouldSurface_AlwaysCounts(st, ev) ==
  LET key == cellKey(ev.label, ev.coord)
      cells == [k \in (DOMAIN st.lastByCell) \cup {key} |->
                  IF k = key THEN MinCellUpdate(st.lastByCell, key, ev.ts)
                  ELSE st.lastByCell[k]]
  IN IF ev.label \notin DOMAIN MinTHR
     THEN [lastByCell |-> cells, result |-> FALSE]
     ELSE IF ev.score < MinTHR[ev.label].conf
     THEN [lastByCell |-> cells, result |-> FALSE]
     ELSE [lastByCell |-> cells,
           result |-> cells[key].count >= MinTHR[ev.label].persist]

\* shouldSurface(st, ev): the state it leaves and what it returns.  The label
\* is looked up as it is spelled.
shouldSurface(st, ev) ==
  IF ev.label \notin DOMAIN MinTHR
  THEN [lastByCell |-> st.lastByCell, result |-> FALSE]
  ELSE IF ev.score < MinTHR[ev.label].conf
  THEN [lastByCell |-> st.lastByCell, result |-> FALSE]
  ELSE LET key == cellKey(ev.label, ev.coord)
           cells == [k \in (DOMAIN st.lastByCell) \cup {key} |->
                       IF k = key THEN MinCellUpdate(st.lastByCell, key, ev.ts)
                       ELSE st.lastByCell[k]]
       IN [lastByCell |-> cells,
           result |-> cells[key].count >= MinTHR[ev.label].persist]

\* ------------------------------------------------------ engines as objects
\* heap is the sequence of the engine objects allocated so far, an object's
\* reference being its index.  An initializer evaluates an object literal:
\* it allocates a new object and returns its reference.
NewObject_Shared(h, kind, st) ==
  IF \E a \in 1..Len(h) : h[a].kind = kind
  THEN [heap |-> h, ref |-> CHOOSE a \in 1..Len(h) : h[a].kind = kind]
  ELSE [heap |-> Append(h, [kind |-> kind, st |-> st]), ref |-> Len(h) + 1]

NewObject(h, kind, st) ==
  [heap |-> Append(h, [kind |-> kind, st |-> st]), ref |-> Len(h) + 1]

\* ----------------------------------------------------------- state machine
NoCall == [called |-> FALSE]

\* The callers that may be inside decideSpecialCase on the one engine at a
\* time when nothing serializes them.
Racers == {1, 2}

\* frames[p] is the activation of decideSpecialCase of caller p: the statement
\* it is at (pc), its argument ev, and its locals: the filtered array about to
\* be assigned (kept), key, prev and the decision returned.  alone says that
\* no call of p has been in progress together with a call of another caller.
IdleFrame ==
  [pc |-> "idle", alone |-> TRUE, ev |-> Undefined, kept |-> <<>>,
   key |-> Undefined, prev |-> Undefined, decision |-> Undefined]

\* ----------------------------------------------------- inputs of the model
\* P0 and P1 lie in the cell <<0, 0>>, 16.7 m apart.  P2 lies in the cell
\* <<0, 2>>, 94.5 m from P0.  PA and PB lie 189 m apart, each 94.5 m from P0;
\* PA2 lies 38.9 m from PA, in the next cell, and 150 m from PB.
P0 == <<0, 0>>
P1 == <<0, 3>>
P2 == <<0, 17>>
PA == <<0, -17>>
PA2 == <<0, -10>>
PB == <<0, 17>>

\* PFar lies 222 m from P0.
PFar == <<0, 40>>

\* An area of interest: a rectangle holding P0 and P1, not P2.
AOI_RING == <<(<<-5, -5>>), (<<5, -5>>), (<<5, 5>>), (<<-5, 5>>), (<<-5, -5>>)>>
AOI_POLY == <<AOI_RING>>

\* A wide area of interest, holding PA, PA2, P0 and PB.
AOI_WIDE_RING == <<(<<-20, -20>>), (<<20, -20>>), (<<20, 20>>), (<<-20, 20>>), (<<-20, -20>>)>>
AOI_WIDE_POLY == <<AOI_WIDE_RING>>

NoAois == Undefined
AoisNoFeatures == Some([features |-> Undefined])
AoisEmpty == Some([features |-> Some(<<>>)])
AoisBox == Some([features |-> Some(<<AOI_POLY>>)])
AoisWide == Some([features |-> Some(<<AOI_WIDE_POLY>>)])

NoAssets == Undefined
AssetsEmpty == Some(<<>>)
AssetsAtP0 == Some(<<P0>>)

MkEvents(labels, scores, coords, times) ==
  [label : labels, score : scores, coord : coords, ts : times]

MkContexts(aois, assets) == [aois : aois, assets : assets]

\* The mixed stream: every label, recognised or not and in either case, scores on both sides of
\* every threshold and outside [0, 1].
Events ==
  MkEvents({"fire", "FIRE", "person", "people", "chemical", "smoke"},
           {-10, 86, 96, 120}, {P0, P2}, {1000, 5000})

Contexts == MkContexts({NoAois, AoisBox}, {NoAssets, AssetsAtP0})

EmptyContext == [aois |-> NoAois, assets |-> NoAssets]

\* The fire stream: gaps of 1000, 11001, 12000, 12001 and 13000 ms, scores on
\* both sides of 0.88 and 0.95.
FireEvents == MkEvents({"fire"}, {86, 90, 96}, {P0, P1, P2}, {1000, 2000, 13001, 14000})

\* The cell stream: the fire stream at one score in the empty context.
CellEvents == MkEvents({"fire"}, {90}, {P0, P1, P2}, {1000, 2000, 13001, 14000})

\* The spelling stream: labels in upper, mixed and lower case.
CaseEvents ==
  MkEvents({"fire", "FIRE", "person", "Person"}, {91, 96}, {P0}, {1000, 5000})

CaseContexts == {EmptyContext, [aois |-> AoisBox, assets |-> AssetsAtP0]}

\* The person stream.
PersonEvents == MkEvents({"person", "people"}, {89, 91, 95}, {P0, P2}, {1000, 5000})

\* The crowd stream: spread-out person detections inside one AOI, within and
\* beyond the 30-second cluster window.
ClusterEvents ==
  MkEvents({"person"}, {91}, {PA, PA2, P0, PB}, {1000, 14000, 27000, 32000})

ClusterContexts == MkContexts({AoisWide}, {NoAssets})

\* The window stream: entries 60000 ms old and older.
WindowEvents == MkEvents({"fire", "person"}, {90}, {P0}, {0, 1000, 30000, 61000, 62000})

\* The near-asset stream: fire and person scores about 0.85, 0.88, 0.90, 0.92.
AssetEvents ==
  MkEvents({"fire", "person", "people"}, {84, 86, 91, 92}, {P0}, {1000, 5000})

\* Every way a context lacks AOIs or assets.
CtxEvents == MkEvents({"fire", "person", "people", "chemical"}, {86, 96}, {P0}, {1000, 5000})

AllContexts ==
  MkContexts({NoAois, AoisNoFeatures, AoisEmpty, AoisBox},
             {NoAssets, AssetsEmpty, AssetsAtP0})

Init ==
  /\ lastByCell = initSpecialCaseEngine.lastByCell
  /\ recent = initSpecialCaseEngine.recent
  /\ last = NoCall
  /\ hist = <<>>
  /\ heap = <<>>
  /\ engines = <<>>
  /\ frames = [p \in Racers |-> IdleFrame]

\* One call decide(st, ev, ctx) on the engine.  last records the call and
\* what it computed; hist lists the (label, coord, ts) processed so far.
Decide(ev, ctx, max) ==
  /\ Len(hist) < max
  /\ \E r \in {decideSpecialCase([lastByCell |-> lastByCell, recent |-> recent], ev, ctx)} :
     /\ lastByCell' = r.lastByCell
     /\ recent' = r.recent
     /\ last' = [called |-> TRUE, ev |-> ev, ctx |-> ctx, key |-> r.key,
                 persistCount |-> r.persistCount, insideAOI |-> r.insideAOI,
                 nearAsset |-> r.nearAsset, clusterHit |-> r.clusterHit,
                 decision |-> r.decision]
     /\ hist' = Append(hist, [label |-> toLowerCase(ev.label),
                              coord |-> ev.coord, ts |-> ev.ts])
     /\ UNCHANGED <<heap, engines, frames>>

Next == \E ev \in Events, ctx \in Contexts : Decide(ev, ctx, MaxCalls)

Spec == Init /\ [][Next]_vars

NextCtx == \E ev \in CtxEvents, ctx \in AllContexts : Decide(ev, ctx, MaxCalls)

SpecCtx == Init /\ [][NextCtx]_vars

NextFire == \E ev \in FireEvents, ctx \in Contexts : Decide(ev, ctx, MaxStreamCalls)

SpecFire == Init /\ [][NextFire]_vars

NextPerson == \E ev \in PersonEvents, ctx \in Contexts : Decide(ev, ctx, MaxStreamCalls)

SpecPerson == Init /\ [][NextPerson]_vars

NextCluster ==
  \E ev \in ClusterEvents, ctx \in ClusterContexts : Decide(ev, ctx, MaxStreamCalls)

SpecCluster == Init /\ [][NextCluster]_vars

\* A call of initSpecialCaseEngine ("special") or of initEngine ("minimal").
NewEngine(kind) ==
  /\ Len(engines) < MaxEngines
  /\ \E r \in {NewObject(heap, kind, IF kind = "special" THEN initSpecialCaseEngine
                                      ELSE initEngine)} :
       /\ heap' = r.heap
       /\ engines' = Append(engines, [kind |-> kind, ref |-> r.ref])
  /\ UNCHANGED <<lastByCell, recent, last, hist, frames>>

\* decideSpecialCase on the i-th engine created.
DecideOn(i, ev, ctx) ==
  /\ Len(hist) < MaxCalls
  /\ engines[i].kind = "special"
  /\ \E r \in {decideSpecialCase(heap[engines[i].ref].st, ev, ctx)} :
       /\ heap' = [heap EXCEPT ![engines[i].ref].st =
                     [lastByCell |-> r.lastByCell, recent |-> r.recent]]
       /\ last' = [called |-> TRUE, engine |-> i, ev |-> ev, ctx |-> ctx,
                   decision |-> r.decision]
  /\ hist' = Append(hist, [engine |-> i, label |-> toLowerCase(ev.label),
                           coord |-> ev.coord, ts |-> ev.ts])
  /\ UNCHANGED <<lastByCell, recent, engines, frames>>

\* shouldSurface on the i-th engine created, in a run of at most max calls.
SurfaceOnUpTo(i, ev, max) ==
  /\ Len(hist) < max
  /\ engines[i].kind = "minimal"
  /\ \E r \in {shouldSurface(heap[engines[i].ref].st, ev)} :
       /\ heap' = [heap EXCEPT ![engines[i].ref].st = [lastByCell |-> r.lastByCell]]
       /\ last' = [called |-> TRUE, engine |-> i, ev |-> ev, result |-> r.result]
  /\ hist' = Append(hist, [engine |-> i, label |-> ev.label,
                           coord |-> ev.coord, ts |-> ev.ts])
  /\ UNCHANGED <<lastByCell, recent, engines, frames>>

\* shouldSurface on the i-th engine created.
SurfaceOn(i, ev) == SurfaceOnUpTo(i, ev, MaxCalls)

EngineEvents == MkEvents({"fire"}, {86, 90}, {P0}, {1000, 5000})

NextEngines ==
  \/ \E kind \in {"special", "minimal"} : NewEngine(kind)
  \/ \E i \in 1..Len(engines), ev \in EngineEvents : DecideOn(i, ev, EmptyContext)
  \/ \E i \in 1..Len(engines), ev \in EngineEvents : SurfaceOn(i, ev)

SpecEngines == Init /\ [][NextEngines]_vars

NextAsset == \E ev \in AssetEvents, ctx \in Contexts : Decide(ev, ctx, MaxCalls)

SpecAsset == Init /\ [][NextAsset]_vars

NextCell == \E ev \in CellEvents : Decide(ev, EmptyContext, MaxStreamCalls)

SpecCell == Init /\ [][NextCell]_vars

NextCase ==
  \E ev \in CaseEvents, ctx \in CaseContexts : Decide(ev, ctx, MaxStreamCalls)

SpecCase == Init /\ [][NextCase]_vars

NextWindow ==
  \E ev \in WindowEvents : Decide(ev, EmptyContext, MaxStreamCalls)

SpecWindow == Init /\ [][NextWindow]_vars

\* The score stream: detections scored below every threshold among confident
\* ones, with and without a context.
ScoreEvents == MkEvents({"fire", "person"}, {50, 91}, {P0, P2}, {1000, 5000})

NextScore ==
  \E ev \in ScoreEvents, ctx \in CaseContexts : Decide(ev, ctx, MaxStreamCalls)

SpecScore == Init /\ [][NextScore]_vars

\* The entry decide pushes for an event.
EntryOf(ev) == [label |-> toLowerCase(ev.label), coord |-> ev.coord, ts |-> ev.ts]

\* The out-of-range stream: scores below 0 and above 1, the ends of [0, 1] and
\* a score between the thresholds.
ClampEvents ==
  MkEvents({"fire", "person", "chemical"}, {-10, 0, 90, 100, 120}, {P0}, {1000, 5000})

NextClamp == \E ev \in ClampEvents, ctx \in CaseContexts : Decide(ev, ctx, MaxCalls)

SpecClamp == Init /\ [][NextClamp]_vars

\* The toast stream of the map: detections offered to shouldSurface, with a
\* label THR does not spell and scores on both sides of the thresholds.
SurfaceEvents ==
  MkEvents({"fire", "FIRE", "chemical"}, {86, 90}, {P0}, {1000, 2000, 14001})

\* The map holds one engine, made once, and offers it every detection.
NextSurface ==
  \/ Len(engines) = 0 /\ NewEngine("minimal")
  \/ \E ev \in SurfaceEvents : Len(engines) = 1 /\ SurfaceOnUpTo(1, ev, MaxStreamCalls)

SpecSurface == Init /\ [][NextSurface]_vars

\* The long person stream: detections 12000 ms apart in one cell, a far one,
\* one of the other label, and a timestamp more than 60000 ms later.
PersistEvents ==
  MkEvents({"person"}, {91}, {P0, PFar}, {1000, 13000, 25000, 90000})
    \cup MkEvents({"people"}, {91}, {P0}, {1000, 13000, 25000, 90000})

NextPersist ==
  \E ev \in PersistEvents :
    Decide(ev, [aois |-> AoisBox, assets |-> NoAssets], MaxPersistCalls)

SpecPersist == Init /\ [][NextPersist]_vars

\* --------------------------------------------------- unserialized callers
\* decideSpecialCase taken statement by statement, for callers that nothing
\* serializes: a step of one caller may follow a step of another.  hist lists
\* the calls in the order they begin.
RaceEvents == MkEvents({"fire"}, {90}, {P0, P2}, {1000, 2000})

Running(p) == frames[p].pc \notin {"idle", "done"}

\* The store made from the entry read again at the store.
CellWrite_Reread(cells, key, prev, t) == CellUpdate(cells, key, t)

\* The entry the if/else stores, from the prev the call read.
CellWrite(cells, key, prev, t) ==
  IF prev = Undefined \/ t - Val(prev).lastTs > PERSIST_MAX_GAP_MS
  THEN [count |-> 1, lastTs |-> t]
  ELSE [count |-> Val(prev).count + 1, lastTs |-> t]

\* Caller p enters decideSpecialCase(st, ev, EmptyContext).
Call(p, ev) ==
  /\ ~Running(p)
  /\ Len(hist) < MaxRaceCalls
  /\ frames' =
       [q \in Racers |->
          IF q = p
          THEN [IdleFrame EXCEPT !.pc = "push", !.ev = Some(ev),
                  !.alone = frames[p].alone /\ \A o \in Racers \ {p} : ~Running(o)]
          ELSE IF Running(q) THEN [frames[q] EXCEPT !.alone = FALSE]
          ELSE frames[q]]
  /\ hist' = Append(hist, EntryOf(ev))
  /\ UNCHANGED <<lastByCell, recent, last, heap, engines>>

\* st.recent.push({label, coord, ts})
Push(p) ==
  /\ frames[p].pc = "push"
  /\ recent' = Append(recent, EntryOf(Val(frames[p].ev)))
  /\ frames' = [frames EXCEPT ![p].pc = "filter"]
  /\ UNCHANGED <<lastByCell, last, hist, heap, engines>>

\* st.recent.filter(r => r.ts >= cutoff), the array it builds
FilterRecent(p) ==
  /\ frames[p].pc = "filter"
  /\ LET cutoff == Val(frames[p].ev).ts - RECENT_WINDOW_MS
         Keep(r) == r.ts >= cutoff
     IN frames' = [frames EXCEPT ![p].pc = "assign", ![p].kept = SelectSeq(recent, Keep)]
  /\ UNCHANGED <<lastByCell, recent, last, hist, heap, engines>>

\* st.recent = the array built
AssignRecent(p) ==
  /\ frames[p].pc = "assign"
  /\ recent' = frames[p].kept
  /\ frames' = [frames EXCEPT ![p].pc = "read"]
  /\ UNCHANGED <<lastByCell, last, hist, heap, engines>>

\* const key = cellKey(label, ev.coord); const prev = st.lastByCell[key]
ReadPrev(p) ==
  /\ frames[p].pc = "read"
  /\ LET ev == Val(frames[p].ev)
         key == cellKey(toLowerCase(ev.label), ev.coord)
     IN frames' = [frames EXCEPT ![p].pc = "write", ![p].key = Some(key),
                     ![p].prev = IF key \in DOMAIN lastByCell
                                 THEN Some(lastByCell[key]) ELSE Undefined]
  /\ UNCHANGED <<lastByCell, recent, last, hist, heap, engines>>

\* if (!prev || t - prev.lastTs > PERSIST_MAX_GAP_MS) ... else ...
WriteCell(p) ==
  /\ frames[p].pc = "write"
  /\ LET key == Val(frames[p].key)
     IN lastByCell' =
          [k \in (DOMAIN lastByCell) \cup {key} |->
             IF k = key
             THEN CellWrite(lastByCell, key, frames[p].prev, Val(frames[p].ev).ts)
             ELSE lastByCell[k]]
  /\ frames' = [frames EXCEPT ![p].pc = "rules"]
  /\ UNCHANGED <<recent, last, hist, heap, engines>>

\* const persistCount = st.lastByCell[key].count, the signals and the rules
Return(p) ==
  /\ frames[p].pc = "rules"
  /\ LET ev == Val(frames[p].ev)
         label == toLowerCase(ev.label)
         key == Val(frames[p].key)
         persistCount == lastByCell[key].count
         inAOI == insideAOI(ev.coord, EmptyContext)
         near == nearAsset(ev.coord, EmptyContext)
         cluster == clusterHit(recent, label, ev.coord, ev.ts)
         decision == Rules(label, ev.score, persistCount, inAOI, near, cluster)
     IN /\ frames' = [frames EXCEPT ![p].pc = "done", ![p].decision = Some(decision)]
        /\ last' = [called |-> TRUE, ev |-> ev, ctx |-> EmptyContext, key |-> key,
                    persistCount |-> persistCount, insideAOI |-> inAOI,
                    nearAsset |-> near, clusterHit |-> cluster, decision |-> decision]
  /\ UNCHANGED <<lastByCell, recent, hist, heap, engines>>

NextRace ==
  \/ \E p \in Racers, ev \in RaceEvents : Call(p, ev)
  \/ \E p \in Racers : Push(p)
  \/ \E p \in Racers : FilterRecent(p)
  \/ \E p \in Racers : AssignRecent(p)
  \/ \E p \in Racers : ReadPrev(p)
  \/ \E p \in Racers : WriteCell(p)
  \/ \E p \in Racers : Return(p)

SpecRace == Init /\ [][NextRace]_vars

\* The labels THR names.
Recognized == {"fire", "person", "people", "chemical"}

InRecent(e) == \E i \in 1..Len(recent) : recent[i] = e

\* ------------------------------------------------------------------ claims
\* C1: every decide call, whatever it returns, leaves in recent an entry
\* {lower-cased label, coord, ts} for its event and in lastByCell an entry for
\* the event's cell key whose lastTs is the event's timestamp.
C1_EveryCallRecords ==
  last.called =>
    /\ InRecent(EntryOf(last.ev))
    /\ cellKey(toLowerCase(last.ev.label), last.ev.coord) \in DOMAIN lastByCell
    /\ lastByCell[cellKey(toLowerCase(last.ev.label), last.ev.coord)].lastTs
         = last.ev.ts

\* An unrecognised label and an upper-case one, both recorded.
C1_Witness ==
  /\ Len(hist) = 2
  /\ last.ev.label = "FIRE"
  /\ last.decision = "record"
  /\ hist[1].label = "smoke"
  /\ InRecent(hist[1])
  /\ InRecent([label |-> "fire", coord |-> last.ev.coord, ts |-> last.ev.ts])
  /\ <<"smoke", 0, 0>> \in DOMAIN lastByCell

\* C8: auto-dispatch is returned only for fire with score >= 0.88, an updated
\* persistence count >= 2 and (score >= 0.95 or inside an AOI); so never for
\* the first detection in a cell.  On a fresh engine fire at 0.96 is recorded,
\* and the same fire 4000 ms later in the same cell is auto-dispatched.
C8_AutoDispatchOnlyPersistentFire ==
  last.called =>
    /\ last.decision = "auto-dispatch" =>
         /\ toLowerCase(last.ev.label) = "fire"
         /\ last.ev.score >= 88
         /\ last.persistCount >= 2
         /\ lastByCell[last.key].count >= 2
         /\ (last.ev.score >= 95 \/ last.insideAOI)
    /\ (Len(hist) = 1 /\ last.ev.label = "fire" /\ last.ev.score = 96)
         => last.decision = "record" /\ last.persistCount = 1
    /\ ( /\ Len(hist) = 2
         /\ last.ev.label = "fire" /\ last.ev.score = 96
         /\ hist[1] = [label |-> "fire", coord |-> last.ev.coord,
                       ts |-> last.ev.ts - 4000] )
         => last.decision = "auto-dispatch" /\ last.persistCount = 2

C8_Witness ==
  /\ Len(hist) = 2
  /\ hist[1] = [label |-> "fire", coord |-> P0, ts |-> 1000]
  /\ last.ev = [label |-> "fire", score |-> 96, coord |-> P0, ts |-> 5000]
  /\ last.ctx = EmptyContext
  /\ last.decision = "auto-dispatch"

\* C9: decide never returns ignore; an event no rule matches (an unrecognised
\* label, or a score below every threshold or outside [0, 1]) is recorded.
C9_NeverIgnore ==
  last.called =>
    /\ last.decision \in {"record", "surface", "auto-dispatch"}
    /\ toLowerCase(last.ev.label) \notin Recognized => last.decision = "record"
    /\ last.ev.score < 85 => last.decision = "record"

C9_Witness ==
  /\ last.called
  /\ last.ev.label = "smoke"
  /\ last.ev.score = 120
  /\ last.insideAOI /\ last.nearAsset
  /\ last.persistCount = 2
  /\ last.decision = "record"

\* The decision decide would return for ev and ctx on the present state.
DecisionAt(ev, ctx) ==
  decideSpecialCase([lastByCell |-> lastByCell, recent |-> recent], ev, ctx).decision

\* C2: on one engine state, coordinate, timestamp and context, the decision
\* for a fire event never becomes less urgent when the score rises.
C2_FireScoreMonotone ==
  \A c \in {P0, P2}, t \in {1000, 13001}, ctx \in Contexts :
    \A s1, s2 \in {86, 90, 96} :
      s1 <= s2 =>
        Rank(DecisionAt([label |-> "fire", score |-> s1, coord |-> c, ts |-> t], ctx))
          <= Rank(DecisionAt([label |-> "fire", score |-> s2, coord |-> c, ts |-> t], ctx))

\* C3: on a fresh engine with no AOI and no asset, fire at 0.90 is recorded;
\* a second one at the same coordinate 1000 ms later is surfaced; a second one
\* more than 12000 ms after the first is recorded again, the count restarted.
C3_FirePersistence ==
  (last.called /\ last.ev.label = "fire" /\ last.ev.score = 90
     /\ last.ctx = EmptyContext) =>
    /\ Len(hist) = 1 => last.decision = "record" /\ last.persistCount = 1
    /\ (Len(hist) = 2 /\ hist[1].coord = last.ev.coord) =>
         /\ last.ev.ts - hist[1].ts = 1000 =>
              last.decision = "surface" /\ last.persistCount = 2
         /\ last.ev.ts - hist[1].ts > 12000 =>
              last.decision = "record" /\ last.persistCount = 1

C3_Witness ==
  /\ Len(hist) = 2
  /\ hist[1] = [label |-> "fire", coord |-> P0, ts |-> 1000]
  /\ last.ev = [label |-> "fire", score |-> 90, coord |-> P0, ts |-> 13001]
  /\ last.ctx = EmptyContext
  /\ last.decision = "record"
  /\ lastByCell[last.key].count = 1

\* The last three events processed are person events no two of which are
\* more than 30 seconds apart, the third scored 0.91 inside an AOI with an
\* updated persistence count below 3.
ThreePersons ==
  /\ Len(hist) >= 3
  /\ last.ev.score = 91
  /\ last.insideAOI
  /\ last.persistCount < 3
  /\ \A i, j \in (Len(hist) - 2)..Len(hist) :
       /\ hist[i].label = "person"
       /\ insideAOI(hist[i].coord, last.ctx)
       /\ hist[i].ts - hist[j].ts <= 30000

\* Candidate common points of three detections.
CommonPoints == {P0, PA, PA2, PB}

\* C4 as claimed: three such events each within 100 m of a common point make
\* the third call return surface, wherever the three lie.
C4_ClusterAnyPlacement ==
  ( /\ last.called
    /\ ThreePersons
    /\ \E p \in CommonPoints :
         \A i \in (Len(hist) - 2)..Len(hist) :
           DistanceWithin(p, hist[i].coord, CLUSTER_METERS) )
    => last.decision = "surface"

\* C4 amended: three such events, the first two each within 100 m of the
\* third one's coordinate, make the third call return surface through
\* clusterHit.
C4_ClusterAroundCurrent ==
  ( /\ last.called
    /\ ThreePersons
    /\ \A i \in (Len(hist) - 2)..Len(hist) :
         DistanceWithin(last.ev.coord, hist[i].coord, CLUSTER_METERS) )
    => last.decision = "surface" /\ last.clusterHit

C4_Witness ==
  /\ Len(hist) = 3
  /\ ThreePersons
  /\ hist[1].coord = PA /\ hist[2].coord = PA /\ last.ev.coord = PA2
  /\ last.persistCount = 1
  /\ last.clusterHit
  /\ last.decision = "surface"

\* C5: a person or people event neither inside an AOI nor within 60 m of a
\* critical asset is recorded, whatever its score, its persistence count and
\* the content of recent.
C5_PersonGatedByAOI ==
  ( /\ last.called
    /\ toLowerCase(last.ev.label) \in {"person", "people"}
    /\ ~last.insideAOI
    /\ ~last.nearAsset )
    => last.decision = "record"

C5_Witness ==
  /\ last.called
  /\ last.ev.label = "person"
  /\ last.ev.score = 95
  /\ last.ev.coord = P2
  /\ last.ctx = [aois |-> AoisBox, assets |-> AssetsAtP0]
  /\ ~last.insideAOI /\ ~last.nearAsset
  /\ last.persistCount = 3
  /\ last.clusterHit
  /\ last.decision = "record"

\* The number of entries of recent equal to e.
Copies(rec, e) == Cardinality({i \in 1..Len(rec) : rec[i] = e})

\* C6: decide is not idempotent.  A call repeating the event of the call
\* before it counts the cell once more and appends a second entry for the
\* event, so that fire at 0.90 outside an AOI, recorded at count 1, is
\* surfaced by the repeat.
C6_NotIdempotent ==
  [][ (last.called /\ Len(hist') = Len(hist) + 1 /\ last'.ev = last.ev) =>
        /\ last'.persistCount = last.persistCount + 1
        /\ lastByCell'[last.key].count = lastByCell[last.key].count + 1
        /\ recent' = Append(recent, EntryOf(last.ev))
        /\ Copies(recent', EntryOf(last.ev)) >= 2
        /\ (last.ev.score = 90 /\ last.persistCount = 1 /\ ~last'.insideAOI) =>
             last.decision = "record" /\ last'.decision = "surface" ]_vars

C6_Witness ==
  /\ Len(hist) = 2
  /\ hist[1] = hist[2]
  /\ last.ev.label = "fire" /\ last.ev.score = 90
  /\ last.ctx = EmptyContext
  /\ Copies(recent, EntryOf(last.ev)) = 2
  /\ lastByCell[last.key].count = 2
  /\ last.decision = "surface"

\* C7: a decide call with timestamp t leaves in recent only entries with
\* ts >= t - 60000, its own entry last; it keeps every earlier entry that is
\* at most 60000 ms old.  After events at 0 and 61000 the entry of 0 is gone.
C7_WindowPruning ==
  [][ Len(hist') = Len(hist) + 1 =>
        /\ \A i \in 1..Len(recent') : recent'[i].ts >= last'.ev.ts - 60000
        /\ Len(recent') >= 1
        /\ recent'[Len(recent')] = EntryOf(last'.ev)
        /\ \A i \in 1..Len(recent) :
             recent[i].ts >= last'.ev.ts - 60000 =>
               \E k \in 1..Len(recent') : recent'[k] = recent[i]
        /\ last'.ev.ts = 61000 =>
             \A k \in 1..Len(recent') : recent'[k].ts # 0 ]_vars

C7_Witness ==
  /\ Len(hist) = 3
  /\ hist[1].ts = 0 /\ hist[2].ts = 1000 /\ hist[3].ts = 61000
  /\ Len(recent) = 2
  /\ recent[1].ts = 1000 /\ recent[2].ts = 61000

\* A context without AOIs, and one without assets.
LacksAois(ctx) == ctx.aois \in {NoAois, AoisNoFeatures, AoisEmpty}

LacksAssets(ctx) == ctx.assets \in {NoAssets, AssetsEmpty}

\* C10: a context with a missing or empty AOI list makes insideAOI false and
\* one with a missing or empty asset list makes nearAsset false; with both,
\* person, people and chemical events are recorded and only fire events are
\* surfaced or auto-dispatched.
C10_EmptyContextDegrades ==
  last.called =>
    /\ LacksAois(last.ctx) => ~last.insideAOI
    /\ LacksAssets(last.ctx) => ~last.nearAsset
    /\ (LacksAois(last.ctx) /\ LacksAssets(last.ctx)) =>
         /\ last.ev.label \in {"person", "people", "chemical"} =>
              last.decision = "record"
         /\ last.decision \in {"surface", "auto-dispatch"} =>
              last.ev.label = "fire"

C10_Witness ==
  /\ Len(hist) = 2
  /\ last.ctx = [aois |-> AoisNoFeatures, assets |-> AssetsEmpty]
  /\ last.ev.label = "people"
  /\ last.ev.score = 96
  /\ last.persistCount = 2
  /\ last.decision = "record"

\* C11: a chemical event with score >= 0.85 is surfaced when it is inside an
\* AOI or within 60 m of a critical asset, on the first detection already, and
\* recorded otherwise; with score < 0.85 it is always recorded.
C11_ChemicalPolicy ==
  (last.called /\ last.ev.label = "chemical") =>
    /\ last.ev.score >= 85 =>
         last.decision = IF last.insideAOI \/ last.nearAsset
                         THEN "surface" ELSE "record"
    /\ last.ev.score < 85 => last.decision = "record"
    /\ ( /\ Len(hist) = 1 /\ last.ev.score = 86
         /\ last.ctx = [aois |-> NoAois, assets |-> Some(<<last.ev.coord>>)] )
         => last.decision = "surface"

C11_Witness ==
  /\ Len(hist) = 1
  /\ last.ev = [label |-> "chemical", score |-> 86, coord |-> P0, ts |-> 1000]
  /\ last.ctx = [aois |-> NoAois, assets |-> AssetsAtP0]
  /\ last.persistCount = 1
  /\ last.nearAsset /\ ~last.insideAOI
  /\ last.decision = "surface"

\* C12: an initializer returns an empty state, and a fresh one: the call
\* changes no engine that exists, and a decide or shouldSurface call on one
\* engine changes no other engine.
C12_FreshEmptyEngines ==
  [][ /\ Len(engines') = Len(engines) + 1 =>
           /\ heap'[engines'[Len(engines')].ref].st =
                (IF engines'[Len(engines')].kind = "special"
                 THEN [lastByCell |-> <<>>, recent |-> <<>>]
                 ELSE [lastByCell |-> <<>>])
           /\ \A j \in 1..Len(engines) :
                heap'[engines'[j].ref].st = heap[engines[j].ref].st
      /\ Len(hist') = Len(hist) + 1 =>
           \A j \in 1..Len(engines) :
             j # last'.engine =>
               heap'[engines'[j].ref].st = heap[engines[j].ref].st ]_vars

\* Two engines of one kind, the first used twice, the second still empty.
C12_Witness ==
  /\ Len(engines) = 2
  /\ engines[1].kind = "special" /\ engines[2].kind = "special"
  /\ Len(hist) = 2
  /\ hist[1].engine = 1 /\ hist[2].engine = 1
  /\ Len(heap[engines[1].ref].st.recent) = 2
  /\ heap[engines[2].ref].st = [lastByCell |-> <<>>, recent |-> <<>>]

\* C13: for a fire event with score >= 0.88 the updated persistence count, the
\* score and insideAOI alone decide: count >= 2 with score >= 0.95 or inside an
\* AOI is auto-dispatched, count >= 2 otherwise is surfaced, count 1 is
\* recorded, inside an AOI and near a critical asset too.
C13_FirePolicy ==
  (last.called /\ toLowerCase(last.ev.label) = "fire" /\ last.ev.score >= 88) =>
    last.decision =
      IF last.persistCount >= 2 /\ (last.ev.score >= 95 \/ last.insideAOI)
      THEN "auto-dispatch"
      ELSE IF last.persistCount >= 2 THEN "surface"
      ELSE "record"

C13_Witness ==
  /\ last.called
  /\ last.ev.label = "fire" /\ last.ev.score = 90
  /\ last.persistCount = 1
  /\ last.insideAOI /\ last.nearAsset
  /\ last.decision = "record"

\* C14: a person or people event with score >= 0.90 inside an AOI is surfaced
\* when the updated persistence count is >= 3 or clusterHit holds and
\* recorded otherwise, the near-asset rule not being consulted; outside an
\* AOI the near-asset rule and the default decide.
C14_PersonPolicy ==
  (last.called /\ toLowerCase(last.ev.label) \in {"person", "people"}) =>
    /\ (last.ev.score >= 90 /\ last.insideAOI) =>
         last.decision = IF last.persistCount >= 3 \/ last.clusterHit
                         THEN "surface" ELSE "record"
    /\ ~last.insideAOI =>
         last.decision = IF last.nearAsset /\ last.ev.score >= 92
                         THEN "surface" ELSE "record"

C14_Witness ==
  /\ last.called
  /\ last.ev.label = "people" /\ last.ev.score = 95
  /\ last.insideAOI /\ last.nearAsset
  /\ last.persistCount = 2 /\ ~last.clusterHit
  /\ last.decision = "record"

\* C15: within 60 m of a critical asset, fire with 0.85 <= score < 0.88 is
\* surfaced whatever the persistence count, person or people with
\* score >= 0.92 outside any AOI is surfaced whatever the persistence count,
\* and person or people with score < 0.92 outside any AOI is recorded.
C15_NearAssetFallback ==
  (last.called /\ last.nearAsset) =>
    /\ (last.ev.label = "fire" /\ last.ev.score >= 85 /\ last.ev.score < 88) =>
         last.decision = "surface"
    /\ (last.ev.label \in {"person", "people"} /\ ~last.insideAOI) =>
         last.decision = IF last.ev.score >= 92 THEN "surface" ELSE "record"

C15_Witness ==
  /\ Len(hist) = 1
  /\ last.ev.label = "person" /\ last.ev.score = 91
  /\ last.nearAsset /\ ~last.insideAOI
  /\ last.persistCount = 1
  /\ last.decision = "record"

\* A step is a decide call.
IsCall == Len(hist') = Len(hist) + 1

\* C16: a decide call with timestamp t for the cell key k stores for k the
\* count 1 when k has no entry or t - lastTs > 12000, and the previous count
\* plus 1 otherwise, a gap of exactly 12000 counting on; lastTs becomes t.
C16_CounterTransition ==
  [][ IsCall =>
        /\ last'.key = cellKey(toLowerCase(last'.ev.label), last'.ev.coord)
        /\ lastByCell'[last'.key].lastTs = last'.ev.ts
        /\ lastByCell'[last'.key].count =
             IF last'.key \notin DOMAIN lastByCell THEN 1
             ELSE IF last'.ev.ts - lastByCell[last'.key].lastTs > 12000 THEN 1
             ELSE lastByCell[last'.key].count + 1
        /\ last'.persistCount = lastByCell'[last'.key].count ]_vars

\* Three detections 12000 ms and then 1 ms apart, and the count at 3.
C16_Witness ==
  /\ Len(hist) = 3
  /\ hist[1].ts = 2000 /\ hist[2].ts = 14000 /\ hist[3].ts = 14000
  /\ hist[1].coord = P0 /\ hist[2].coord = P1 /\ hist[3].coord = P0
  /\ lastByCell[<<"fire", 0, 0>>] = [count |-> 3, lastTs |-> 14000]

\* The call processes a timestamp earlier than the one stored for its cell.
NegativeGap ==
  /\ IsCall
  /\ last'.key \in DOMAIN lastByCell
  /\ last'.ev.ts < lastByCell[last'.key].lastTs

\* C17 as claimed: an event earlier than the lastTs stored for its cell
\* resets the cell, its count becoming 1.
C17_NegativeGapResets ==
  [][ NegativeGap => lastByCell'[last'.key].count = 1 ]_vars

\* C17 amended: an event earlier than the lastTs stored for its cell does not
\* reset the cell; the count grows by one and lastTs moves back to the
\* earlier timestamp.
C17_NegativeGapIncrements ==
  [][ NegativeGap =>
        /\ lastByCell'[last'.key].count = lastByCell[last'.key].count + 1
        /\ lastByCell'[last'.key].lastTs = last'.ev.ts
        /\ lastByCell'[last'.key].lastTs < lastByCell[last'.key].lastTs ]_vars

C17_Witness ==
  /\ Len(hist) = 2
  /\ hist[1] = [label |-> "fire", coord |-> P0, ts |-> 14000]
  /\ hist[2] = [label |-> "fire", coord |-> P0, ts |-> 1000]
  /\ lastByCell[<<"fire", 0, 0>>] = [count |-> 2, lastTs |-> 1000]
  /\ last.decision = "surface"

\* What decide leaves and returns for ev and ctx on the present state.
OutcomeAt(ev, ctx) ==
  decideSpecialCase([lastByCell |-> lastByCell, recent |-> recent], ev, ctx)

\* C18: labels are matched without regard to case.  On every state reached by
\* any mix of spellings, an event and the same event with its label in lower
\* case leave the same engine state, under one cell key and one cluster
\* label, and get the same decision; so two streams differing only in the
\* case of labels go through the same states and decisions.
C18_CaseInsensitive ==
  /\ \A ev \in CaseEvents, ctx \in CaseContexts :
       OutcomeAt(ev, ctx) = OutcomeAt([ev EXCEPT !.label = toLowerCase(ev.label)], ctx)
  /\ \A k \in DOMAIN lastByCell : k[1] \in {"fire", "person"}
  /\ \A i \in 1..Len(recent) : recent[i].label \in {"fire", "person"}

\* FIRE counted on the cell of fire, and three spellings in one cluster.
C18_Witness ==
  /\ Len(hist) = 3
  /\ last.ev.label = "Person" /\ last.ev.score = 91
  /\ last.insideAOI
  /\ last.key = <<"person", 0, 0>>
  /\ last.persistCount = 3 /\ last.clusterHit
  /\ last.decision = "surface"
  /\ DOMAIN lastByCell = {<<"person", 0, 0>>}

\* C19 as claimed: within one run of detections of one label in one cell with
\* gaps of at most 12000 ms, a call that follows a surfaced or auto-dispatched
\* one and counts on the same run is not surfaced or auto-dispatched again.
C19_SurfacedOnce ==
  [][ ( /\ IsCall
        /\ last.called
        /\ last.decision \in {"surface", "auto-dispatch"}
        /\ last'.key = last.key
        /\ last'.ev.ts - last.ev.ts \in 1..PERSIST_MAX_GAP_MS
        /\ last'.persistCount = last.persistCount + 1 )
      => last'.decision \notin {"surface", "auto-dispatch"} ]_vars

\* C20: lastByCell is never evicted.  Every key with an entry keeps one, with
\* its entry unless the call is for that key, and a call adds at most one key.
C20_NoEviction ==
  [][ /\ DOMAIN lastByCell \subseteq DOMAIN lastByCell'
      /\ Cardinality(DOMAIN lastByCell') <= Cardinality(DOMAIN lastByCell) + 1
      /\ IsCall => DOMAIN lastByCell' = DOMAIN lastByCell \cup {last'.key} ]_vars

\* A cell silent for 13000 ms, kept while another cell is written.
C20_Witness ==
  /\ Len(hist) = 2
  /\ hist[1] = [label |-> "fire", coord |-> P0, ts |-> 1000]
  /\ hist[2] = [label |-> "fire", coord |-> P2, ts |-> 14000]
  /\ DOMAIN lastByCell = {<<"fire", 0, 0>>, <<"fire", 0, 2>>}
  /\ lastByCell[<<"fire", 0, 0>>] = [count |-> 1, lastTs |-> 1000]


\* The engine state left by the calls of h made with score 0 and no context:
\* h lists the (label, coord, ts) of the calls made, the oldest first.
RECURSIVE Replay(_)
Replay(h) ==
  IF h = <<>> THEN initSpecialCaseEngine
  ELSE LET n == Len(h)
           r == decideSpecialCase(Replay(SubSeq(h, 1, n - 1)),
                                  [label |-> h[n].label, score |-> 0,
                                   coord |-> h[n].coord, ts |-> h[n].ts],
                                  EmptyContext)
       IN [lastByCell |-> r.lastByCell, recent |-> r.recent]

\* C21: nothing of a call's score or context is kept.  The engine state after
\* any calls is the state the same (label, coord, ts) leave when made with
\* score 0 and no context, and the decision is the rules applied to the
\* current score, the current context's signals and that state; so a detection
\* scored below every threshold counts in the persistence count and in the
\* recent entries of the call after it.
C21_NoCaching ==
  [][ IsCall =>
        /\ [lastByCell |-> lastByCell', recent |-> recent'] = Replay(hist')
        /\ last'.decision =
             Rules(toLowerCase(last'.ev.label), last'.ev.score,
                   Replay(hist').lastByCell[last'.key].count,
                   insideAOI(last'.ev.coord, last'.ctx),
                   nearAsset(last'.ev.coord, last'.ctx),
                   clusterHit(Replay(hist').recent, toLowerCase(last'.ev.label),
                              last'.ev.coord, last'.ev.ts))
        /\ ( /\ last.called
             /\ last.ev.score < CHEMICAL_CONF
             /\ last'.key = last.key
             /\ last'.ev.ts - last.ev.ts \in 0..PERSIST_MAX_GAP_MS )
             => /\ last'.persistCount = last.persistCount + 1
                /\ \E i \in 1..Len(recent') : recent'[i] = EntryOf(last.ev) ]_vars

\* Two detections scored 0.50, below every threshold, and the cell at count 2
\* with both in recent.
C21_Witness ==
  /\ Len(hist) = 2
  /\ last.ev = [label |-> "person", score |-> 50, coord |-> P0, ts |-> 5000]
  /\ last.ctx = [aois |-> AoisBox, assets |-> AssetsAtP0]
  /\ last.decision = "record"
  /\ lastByCell[<<"person", 0, 0>>] = [count |-> 2, lastTs |-> 5000]
  /\ Len(recent) = 2


\* The number of entries of rec not older than t - 60000.
InWindow(rec, t) == Cardinality({i \in 1..Len(rec) : rec[i].ts >= t - RECENT_WINDOW_MS})

Quiescent == \A p \in Racers : ~Running(p)

\* No two calls have been in progress together.
NeverOverlapped == \A p \in Racers : frames[p].alone

\* The number of calls begun for the cell key.
CallsFor(key) ==
  Cardinality({i \in 1..Len(hist) : cellKey(hist[i].label, hist[i].coord) = key})

\* The last calls of p and q were for one cell and both read its entry
\* before either stored its update.
BothReadFirst(p, q) ==
  /\ p # q
  /\ frames[p].pc = "done" /\ frames[q].pc = "done"
  /\ frames[p].key = frames[q].key
  /\ frames[p].prev = frames[q].prev

\* hist with its two calls in the other order.
Swapped(h) == <<h[2], h[1]>>

\* C23: calls on one engine must be serialized.  When each call has run to
\* completion before the next began, the engine is in the state the calls
\* leave in their order.  When two calls for one cell both read the cell's
\* entry before either stored, an update is lost: with all detections less
\* than 12000 ms apart the count is below the number of calls for the cell,
\* and after two calls it is the count of neither serial order.
C23_LostUpdateUnlessSerialized ==
  Quiescent =>
    /\ NeverOverlapped =>
         [lastByCell |-> lastByCell, recent |-> recent] = Replay(hist)
    /\ \A p, q \in Racers :
         BothReadFirst(p, q) =>
           /\ lastByCell[Val(frames[p].key)].count < CallsFor(Val(frames[p].key))
           /\ Len(hist) = 2 =>
                /\ lastByCell[Val(frames[p].key)].count
                     # Replay(hist).lastByCell[Val(frames[p].key)].count
                /\ lastByCell[Val(frames[p].key)].count
                     # Replay(Swapped(hist)).lastByCell[Val(frames[p].key)].count

\* Two fire detections 1000 ms apart in one cell, both callers having read no
\* entry: the count is 1 where either serial order leaves 2, and the second
\* detection is recorded where it would have been surfaced.
C23_Witness ==
  /\ Quiescent
  /\ Len(hist) = 2
  /\ hist[1] = [label |-> "fire", coord |-> P0, ts |-> 1000]
  /\ hist[2] = [label |-> "fire", coord |-> P0, ts |-> 2000]
  /\ BothReadFirst(1, 2)
  /\ frames[1].prev = Undefined
  /\ lastByCell[<<"fire", 0, 0>>].count = 1
  /\ Replay(hist).lastByCell[<<"fire", 0, 0>>].count = 2
  /\ frames[1].decision = Some("record") /\ frames[2].decision = Some("record")


\* The cell key of an entry of hist.
KeyOf(h) == cellKey(h.label, h.coord)

\* The place in hist of the last call for the cell key.
LastCallFor(key) ==
  CHOOSE i \in 1..Len(hist) :
    /\ KeyOf(hist[i]) = key
    /\ \A j \in (i + 1)..Len(hist) : KeyOf(hist[j]) # key

\* C24: every lastByCell entry has a count of at least 1 and at most the number
\* of calls made for its key, and the timestamp of the last call made for its
\* key; the keys with an entry are the keys of the calls made.
C24_CellEntries ==
  /\ DOMAIN lastByCell = {KeyOf(hist[i]) : i \in 1..Len(hist)}
  /\ \A k \in DOMAIN lastByCell :
       /\ lastByCell[k].count >= 1
       /\ lastByCell[k].count <= CallsFor(k)
       /\ lastByCell[k].lastTs = hist[LastCallFor(k)].ts

\* Two cells; the one called twice, 13000 ms apart, back at count 1.
C24_Witness ==
  /\ Len(hist) = 3
  /\ hist[1] = [label |-> "fire", coord |-> P0, ts |-> 1000]
  /\ hist[2] = [label |-> "fire", coord |-> P2, ts |-> 2000]
  /\ hist[3] = [label |-> "fire", coord |-> P1, ts |-> 14000]
  /\ lastByCell[<<"fire", 0, 0>>] = [count |-> 1, lastTs |-> 14000]
  /\ lastByCell[<<"fire", 0, 2>>] = [count |-> 1, lastTs |-> 2000]
  /\ CallsFor(<<"fire", 0, 0>>) = 2


\* C25: on one engine state, event and asset list, the decision with the
\* coordinate inside an AOI is at least as urgent as the decision with no AOI
\* around it, for a person or people event scored 0.92 near a critical asset
\* too.
C25_AoiNeverLowers ==
  \A ev \in AssetEvents, assets \in {NoAssets, AssetsAtP0} :
    Rank(DecisionAt(ev, [aois |-> AoisBox, assets |-> assets]))
      >= Rank(DecisionAt(ev, [aois |-> NoAois, assets |-> assets]))


\* The entries of rec not older than t - 60000, in their order.
Surviving(rec, t) ==
  LET Keep(r) == r.ts >= t - RECENT_WINDOW_MS
  IN SelectSeq(rec, Keep)

\* C26: a decide call for the cell key k leaves the lastByCell entry of every
\* other key as it was, and leaves in recent the surviving entries in the
\* order they had, followed by the new entry.
C26_Frame ==
  [][ IsCall =>
        /\ \A j \in DOMAIN lastByCell :
             j # last'.key => j \in DOMAIN lastByCell' /\ lastByCell'[j] = lastByCell[j]
        /\ Len(recent') >= 1
        /\ recent'[Len(recent')] = EntryOf(last'.ev)
        /\ SubSeq(recent', 1, Len(recent') - 1) = Surviving(recent, last'.ev.ts) ]_vars

\* A fire entry pruned, the person entry after it kept before the new fire
\* entry, and the person cell untouched by the fire call.
C26_Witness ==
  /\ Len(hist) = 3
  /\ hist[1] = [label |-> "fire", coord |-> P0, ts |-> 0]
  /\ hist[2] = [label |-> "person", coord |-> P0, ts |-> 30000]
  /\ hist[3] = [label |-> "fire", coord |-> P0, ts |-> 61000]
  /\ recent = <<hist[2], hist[3]>>
  /\ lastByCell[<<"person", 0, 0>>] = [count |-> 1, lastTs |-> 30000]
  /\ lastByCell[<<"fire", 0, 0>>] = [count |-> 1, lastTs |-> 61000]


\* The calls made so far with the label.
CallsLabelled(label) == {i \in 1..Len(hist) : hist[i].label = label}

\* person for people and people for person.
OtherLabel(label) == IF label = "person" THEN "people" ELSE "person"

\* C27: person and people accumulate apart and are judged alike.  The
\* persistence count of a person event is at most the number of person calls,
\* its cluster is made of person detections alone (three of them within
\* 100 m and 30 s), and the same for people; the decision is the one the
\* rules give the other label on the same score and signals.
C27_PersonPeopleApart ==
  (last.called /\ last.ev.label \in {"person", "people"}) =>
    /\ last.key[1] = last.ev.label
    /\ last.persistCount <= Cardinality(CallsLabelled(last.ev.label))
    /\ last.clusterHit <=>
         Cardinality({i \in CallsLabelled(last.ev.label) :
                        /\ hist[i].ts >= last.ev.ts - CLUSTER_WINDOW_MS
                        /\ DistanceWithin(last.ev.coord, hist[i].coord, CLUSTER_METERS)})
           >= CLUSTER_COUNT
    /\ last.decision =
         Rules(OtherLabel(last.ev.label), last.ev.score, last.persistCount,
               last.insideAOI, last.nearAsset, last.clusterHit)

\* Two person detections and then a people detection at one place inside an
\* AOI: the people event at count 1 with no cluster, and recorded.
C27_Witness ==
  /\ Len(hist) = 3
  /\ hist[1].label = "person" /\ hist[2].label = "person"
  /\ hist[1].coord = P0 /\ hist[2].coord = P0
  /\ last.ev = [label |-> "people", score |-> 91, coord |-> P0, ts |-> 5000]
  /\ last.insideAOI
  /\ last.persistCount = 1 /\ ~last.clusterHit
  /\ last.decision = "record"
  /\ lastByCell[<<"person", 0, 0>>].count = 2


\* The timestamps of the calls made never go back.
Monotone == \A i \in 1..(Len(hist) - 1) : hist[i].ts <= hist[i + 1].ts

\* The entries of recent before the last that count in the cluster of the
\* last call.
EarlierInCluster ==
  {i \in 1..(Len(recent) - 1) :
     /\ recent[i].label = toLowerCase(last.ev.label)
     /\ recent[i].ts >= last.ev.ts - CLUSTER_WINDOW_MS
     /\ DistanceWithin(last.ev.coord, recent[i].coord, CLUSTER_METERS)}

\* C28: the cluster count is one, for the event itself, plus the earlier
\* entries of recent of the same label not older than t - 30000 and within
\* 100 m of the event.  When timestamps never go back, a person event with a
\* persistence count of 3 or more has clusterHit, so inside an AOI it is
\* surfaced exactly when clusterHit holds.
C28_PersistenceImpliesCluster ==
  last.called =>
    /\ recent[Len(recent)] = EntryOf(last.ev)
    /\ last.clusterHit <=> 1 + Cardinality(EarlierInCluster) >= CLUSTER_COUNT
    /\ (Monotone /\ last.persistCount >= PERSON_PERSIST_TICKS_AOI) => last.clusterHit
    /\ (Monotone /\ last.insideAOI) =>
         (last.decision = "surface" <=> last.clusterHit)

\* Three detections in one cell 12000 ms apart: 24000 ms from the first to the
\* third, inside the 30000 ms of the cluster window.
C28_Witness ==
  /\ Len(hist) = 3
  /\ hist[1] = [label |-> "person", coord |-> P0, ts |-> 1000]
  /\ hist[2] = [label |-> "person", coord |-> P0, ts |-> 13000]
  /\ hist[3] = [label |-> "person", coord |-> P0, ts |-> 25000]
  /\ last.persistCount = 3
  /\ last.clusterHit
  /\ last.decision = "surface"

\* Timestamps that go back: a count of 3 with two entries left in recent.
C28_OutOfOrder ==
  /\ last.called
  /\ ~Monotone
  /\ last.insideAOI
  /\ last.persistCount = 3
  /\ ~last.clusterHit
  /\ last.decision = "surface"


\* The score brought into [0, 1].
Clamp(score) == IF score > 100 THEN 100 ELSE IF score < 0 THEN 0 ELSE score

\* C29: a score outside [0, 1] is treated as the nearer end of [0, 1].  On
\* every state, an event scored above 1 leaves the state and gets the decision
\* of the same event scored 1, and one scored below 0 those of the same event
\* scored 0; and no call is turned away for its score: its event is recorded
\* in recent and in lastByCell and a decision other than ignore returned.
C29_OutOfRangeAsClamped ==
  /\ \A ev \in ClampEvents, ctx \in CaseContexts :
       OutcomeAt(ev, ctx) = OutcomeAt([ev EXCEPT !.score = Clamp(ev.score)], ctx)
  /\ last.called =>
       /\ InRecent(EntryOf(last.ev))
       /\ lastByCell[last.key].lastTs = last.ev.ts
       /\ last.decision \in {"record", "surface", "auto-dispatch"}
       /\ last.decision =
            Rules(toLowerCase(last.ev.label), Clamp(last.ev.score), last.persistCount,
                  last.insideAOI, last.nearAsset, last.clusterHit)

\* Fire scored 1.2 auto-dispatched at its second detection.
C29_Witness ==
  /\ Len(hist) = 2
  /\ last.ev = [label |-> "fire", score |-> 120, coord |-> P0, ts |-> 5000]
  /\ last.ctx = EmptyContext
  /\ last.persistCount = 2
  /\ last.decision = "auto-dispatch"


\* The thresholds the minimal engine is said to have.
ConfOf(label) ==
  CASE label = "fire" -> 88
    [] label = "people" -> 90
    [] label = "person" -> 90
    [] label = "chemical" -> 85

PersistOf(label) == IF label = "chemical" THEN 1 ELSE 2

\* Events tried on every state of a minimal engine: every label of THR, two
\* labels outside it, scores at and about each threshold, and timestamps
\* 12000 and 12001 ms after the first of the stream.
SurfaceProbes ==
  MkEvents({"fire", "people", "person", "chemical", "Fire", "smoke"},
           {84, 85, 87, 88, 89, 90}, {P0}, {13000, 13001})

====
